---- MODULE Spec2Model ----
(***************************************************************************)
(* String-analysis service of src/src/routes/strings.ts: the property      *)
(* computer, the D1 table "strings", the structured filter, the            *)
(* natural-language filter parser and the HTTP handlers that tie them      *)
(* together.                                                               *)
(*                                                                         *)
(* Text is a sequence of characters, each character a string naming one    *)
(* code point.  A JavaScript object is a sequence of <<key, value>> pairs in   *)
(* property order.  SHA-256 is collision free on the values considered and *)
(* is kept symbolic: the digest of a byte sequence is a term built from    *)
(* that byte sequence.                                                     *)
(***************************************************************************)
EXTENDS Integers, Sequences, FiniteSets, TLC

VARIABLES strings, now, pc, req, resp, firstCreated, deleted

vars == <<strings, now, pc, req, resp, firstCreated, deleted>>

(***************************************************************************)
(* Bounds of the model.                                                    *)
(***************************************************************************)
NumClients == 2
NumValues == 3
MaxClock == 1
MaxFilterLength == 2
MaxFilterKeys == 2
MaxPhrases == 2
MaxTextLength == 4

Clients == 1..NumClients

(***************************************************************************)
(* Characters and text.                                                    *)
(***************************************************************************)
UpperLetters == <<"A","B","C","D","E","F","G","H","I","J","K","L","M",
                  "N","O","P","Q","R","S","T","U","V","W","X","Y","Z">>
LowerLetters == <<"a","b","c","d","e","f","g","h","i","j","k","l","m",
                  "n","o","p","q","r","s","t","u","v","w","x","y","z">>
Digits == <<"0","1","2","3","4","5","6","7","8","9">>

IndexIn(seq, c) ==
  IF \E i \in 1..Len(seq) : seq[i] = c
  THEN CHOOSE i \in 1..Len(seq) : seq[i] = c
  ELSE 0

IsUpper(c) == IndexIn(UpperLetters, c) > 0
IsLower(c) == IndexIn(LowerLetters, c) > 0
IsDigit(c) == IndexIn(Digits, c) > 0
IsWhitespace(c) == c \in {" ", "\t", "\n"}

\* Characters outside ASCII are named by an atom: "E_ACUTE" is U+00C9,
\* "e_acute" is U+00E9 and "acute" is the combining mark U+0301.
\* Each entry: <<character, its lower case, its canonical decomposition,
\* its UTF-8 code units>>.
NonAsciiTable == <<
  <<"E_ACUTE", "e_acute", <<"E", "acute">>, <<195, 137>> >>,
  <<"e_acute", "e_acute", <<"e", "acute">>, <<195, 169>> >>,
  <<"acute",   "acute",   <<"acute">>,      <<204, 129>> >> >>

NonAsciiIndex(c) ==
  IF \E i \in 1..Len(NonAsciiTable) : NonAsciiTable[i][1] = c
  THEN CHOOSE i \in 1..Len(NonAsciiTable) : NonAsciiTable[i][1] = c
  ELSE 0

IsAscii(c) == NonAsciiIndex(c) = 0

\* String.prototype.toLowerCase, one character
LowerChar(c) ==
  IF IsUpper(c) THEN LowerLetters[IndexIn(UpperLetters, c)]
  ELSE IF IsAscii(c) THEN c
  ELSE NonAsciiTable[NonAsciiIndex(c)][2]

toLowerCase(s) == [i \in 1..Len(s) |-> LowerChar(s[i])]

\* String.prototype.trim
trim(s) ==
  LET keep == {i \in 1..Len(s) : ~IsWhitespace(s[i])}
  IN IF keep = {} THEN <<>>
     ELSE LET first == CHOOSE i \in keep : \A j \in keep : i <= j
              last == CHOOSE i \in keep : \A j \in keep : j <= i
          IN SubSeq(s, first, last)

Reverse(s) == [i \in 1..Len(s) |-> s[Len(s) + 1 - i]]

\* whether lit occurs in s starting at position i
MatchesAt(s, i, lit) ==
  /\ i >= 1
  /\ i + Len(lit) - 1 <= Len(s)
  /\ \A k \in 1..Len(lit) : s[i + k - 1] = lit[k]

\* String.prototype.includes
includes(s, lit) == \E i \in 1..(Len(s) + 1) : MatchesAt(s, i, lit)

\* Number(digits) for a run of decimal digits
RECURSIVE Number(_)
Number(ds) ==
  IF ds = <<>> THEN 0
  ELSE 10 * Number(SubSeq(ds, 1, Len(ds) - 1)) + (IndexIn(Digits, ds[Len(ds)]) - 1)

(***************************************************************************)
(* Property computer.                                                      *)
(***************************************************************************)
\* /[^a-z0-9]/gi keeps exactly the ASCII letters and digits
IsAsciiAlnum(c) == IsLower(c) \/ IsUpper(c) \/ IsDigit(c)

\* String.prototype.normalize("NFD")
RECURSIVE NFD(_)
NFD(s) ==
  IF s = <<>> THEN <<>>
  ELSE (IF IsAscii(Head(s)) THEN <<Head(s)>>
        ELSE NonAsciiTable[NonAsciiIndex(Head(s))][3]) \o NFD(Tail(s))

\* /[\u0300-\u036f]/
IsCombiningMark(c) == c = "acute"

\* the normal form without the lower-casing step
normalizeForPalindrome_CaseKept(input) ==
  LET unaccented == SelectSeq(NFD(input), LAMBDA c : ~IsCombiningMark(c))
  IN SelectSeq(unaccented, IsAsciiAlnum)

normalizeForPalindrome(input) ==
  LET lowered == NFD(toLowerCase(input))
      unaccented == SelectSeq(lowered, LAMBDA c : ~IsCombiningMark(c))
  IN SelectSeq(unaccented, IsAsciiAlnum)

\* input.split(/\s+/).length without the trim: whitespace at either end adds
\* an empty piece
calculateWordCount_Untrimmed(input) ==
  1 + Cardinality({i \in 1..Len(input) :
          IsWhitespace(input[i]) /\ (i = 1 \/ ~IsWhitespace(input[i - 1]))})

\* trimmed.split(/\s+/).length: the number of maximal runs of non-whitespace
calculateWordCount(input) ==
  LET trimmed == trim(input)
  IN IF Len(trimmed) = 0 THEN 0
     ELSE 1 + Cardinality({i \in 2..Len(trimmed) :
                 IsWhitespace(trimmed[i]) /\ ~IsWhitespace(trimmed[i - 1])})

\* a new key entered with the count 0
InsertKey_CountFromZero(obj, key) == Append(obj, <<key, 0>>)

\* Property order of a JavaScript object: integer-like keys ascending, then
\* the other keys in insertion order.
InsertKey(obj, key) ==
  IF IsDigit(key)
  THEN LET before == SelectSeq(obj, LAMBDA e : IsDigit(e[1])
                                   /\ IndexIn(Digits, e[1]) < IndexIn(Digits, key))
           after == SelectSeq(obj, LAMBDA e : ~(IsDigit(e[1])
                                   /\ IndexIn(Digits, e[1]) < IndexIn(Digits, key)))
       IN before \o <<<<key, 1>>>> \o after
  ELSE Append(obj, <<key, 1>>)

HasKey(obj, key) == \E i \in 1..Len(obj) : obj[i][1] = key

RECURSIVE buildCharacterFrequencyMap(_)
buildCharacterFrequencyMap(input) ==
  IF input = <<>> THEN <<>>
  ELSE LET frequency == buildCharacterFrequencyMap(SubSeq(input, 1, Len(input) - 1))
           char == input[Len(input)]
       IN IF HasKey(frequency, char)
          THEN [i \in 1..Len(frequency) |->
                  IF frequency[i][1] = char
                  THEN <<char, frequency[i][2] + 1>>
                  ELSE frequency[i]]
          ELSE InsertKey(frequency, char)

\* Code points of the ASCII characters used by the model
AsciiTable == <<
  <<"\t", 9>>, <<"\n", 10>>, <<" ", 32>>, <<"%", 37>>, <<".", 46>>,
  <<"5", 53>>, <<"U", 85>>, <<"X", 88>>, <<"_", 95>>,
  <<"u", 117>>, <<"x", 120>>, <<"y", 121>> >>

CharCode(c) ==
  LET i == CHOOSE k \in 1..Len(AsciiTable) : AsciiTable[k][1] = c
  IN AsciiTable[i][2]

HasCharCode(b) == \E k \in 1..Len(AsciiTable) : AsciiTable[k][2] = b

FromCharCode(b) ==
  LET i == CHOOSE k \in 1..Len(AsciiTable) : AsciiTable[k][2] = b
  IN AsciiTable[i][1]

\* TextEncoder.encode: the UTF-8 code units of the text
RECURSIVE encode(_)
encode(value) ==
  IF value = <<>> THEN <<>>
  ELSE (IF IsAscii(Head(value)) THEN <<CharCode(Head(value))>>
        ELSE NonAsciiTable[NonAsciiIndex(Head(value))][4]) \o encode(Tail(value))

\* crypto.subtle.digest("SHA-256", bytes), symbolic
Sha256(bytes) == [sha256 |-> bytes]

toHex(buffer) == [hex |-> buffer]

computeStringProperties(value) ==
  LET normalized == normalizeForPalindrome(value)
      reversed == Reverse(normalized)
      shaBuffer == Sha256(encode(value))
  IN [ length |-> Len(value),
       is_palindrome |-> (Len(normalized) > 0 /\ normalized = reversed),
       unique_characters |-> Cardinality({value[i] : i \in 1..Len(value)}),
       word_count |-> calculateWordCount(value),
       sha256_hash |-> toHex(shaBuffer),
       character_frequency_map |-> buildCharacterFrequencyMap(value) ]

(***************************************************************************)
(* decodeURIComponent, as the handlers apply it to a path parameter.       *)
(***************************************************************************)
HexLetters == <<"a","b","c","d","e","f">>

IsHexDigit(c) == IsDigit(c) \/ IndexIn(HexLetters, LowerChar(c)) > 0

HexValue(c) ==
  IF IsDigit(c) THEN IndexIn(Digits, c) - 1
  ELSE 9 + IndexIn(HexLetters, LowerChar(c))

\* whether "%XX" stands at position i
EscapeAt(s, i) ==
  /\ i + 2 <= Len(s)
  /\ s[i] = "%"
  /\ IsHexDigit(s[i + 1])
  /\ IsHexDigit(s[i + 2])

EscapeByte(s, i) == 16 * HexValue(s[i + 1]) + HexValue(s[i + 2])

\* number of code units of the UTF-8 sequence a lead byte opens, 0 if none
Utf8Length(b) ==
  IF b < 128 THEN 1
  ELSE IF b >= 194 /\ b <= 223 THEN 2
  ELSE IF b >= 224 /\ b <= 239 THEN 3
  ELSE IF b >= 240 /\ b <= 244 THEN 4
  ELSE 0

\* the character of the model with these UTF-8 code units
CharOfUtf8(bytes) ==
  IF Len(bytes) = 1 THEN FromCharCode(bytes[1])
  ELSE LET i == CHOOSE k \in 1..Len(NonAsciiTable) : NonAsciiTable[k][4] = bytes
       IN NonAsciiTable[i][1]

URIError == [ok |-> FALSE, text |-> <<>>]

RECURSIVE DecodeFrom(_, _)
DecodeFrom(s, i) ==
  IF i > Len(s) THEN [ok |-> TRUE, text |-> <<>>]
  ELSE IF s[i] /= "%"
  THEN LET rest == DecodeFrom(s, i + 1)
       IN IF rest.ok THEN [ok |-> TRUE, text |-> <<s[i]>> \o rest.text] ELSE URIError
  ELSE IF ~EscapeAt(s, i) THEN URIError
  ELSE LET n == Utf8Length(EscapeByte(s, i))
       IN IF n = 0 THEN URIError
          ELSE IF \E k \in 1..(n - 1) :
                     \/ ~EscapeAt(s, i + 3 * k)
                     \/ EscapeByte(s, i + 3 * k) < 128
                     \/ EscapeByte(s, i + 3 * k) > 191
          THEN URIError
          ELSE LET bytes == [k \in 1..n |-> EscapeByte(s, i + 3 * (k - 1))]
                   rest == DecodeFrom(s, i + 3 * n)
               IN IF rest.ok
                  THEN [ok |-> TRUE, text |-> <<CharOfUtf8(bytes)>> \o rest.text]
                  ELSE URIError

decodeURIComponent(s) == DecodeFrom(s, 1)

(***************************************************************************)
(* Rows of the table and records of the API.                               *)
(***************************************************************************)
\* JSON text is kept as the kind of value it denotes together with that
\* value: "object", "array", "null", "number", "string", "boolean", or
\* "invalid" for text JSON.parse rejects.
JSONstringify(obj) == [json |-> "object", value |-> obj]

parseFrequencyMap(raw) ==
  IF raw.json \in {"object", "array"} THEN raw.value ELSE <<>>

\* Date.prototype.toISOString: fixed-width text, ordered as the instants are
toISOString(t) == [iso |-> t]

Boolean(n) == n /= 0

mapRowToRecord(row) ==
  [ id |-> row.id,
    value |-> row.value,
    properties |->
      [ length |-> row.length,
        is_palindrome |-> Boolean(row.is_palindrome),
        unique_characters |-> row.unique_characters,
        word_count |-> row.word_count,
        sha256_hash |-> row.id,
        character_frequency_map |-> parseFrequencyMap(row.character_frequency_map) ],
    created_at |-> row.created_at ]

\* word_count and unique_characters bound in each other's place
InsertedRow_SwappedCounts(value, properties, created_at) ==
  [ id |-> properties.sha256_hash,
    value |-> value,
    length |-> properties.length,
    is_palindrome |-> IF properties.is_palindrome THEN 1 ELSE 0,
    unique_characters |-> properties.word_count,
    word_count |-> properties.unique_characters,
    character_frequency_map |-> JSONstringify(properties.character_frequency_map),
    created_at |-> created_at ]

\* the row bound by the INSERT of the create handler
InsertedRow(value, properties, created_at) ==
  [ id |-> properties.sha256_hash,
    value |-> value,
    length |-> properties.length,
    is_palindrome |-> IF properties.is_palindrome THEN 1 ELSE 0,
    unique_characters |-> properties.unique_characters,
    word_count |-> properties.word_count,
    character_frequency_map |-> JSONstringify(properties.character_frequency_map),
    created_at |-> created_at ]

\* the record the create handler answers with
CreatedRecord(value, properties, created_at) ==
  [ id |-> properties.sha256_hash,
    value |-> value,
    properties |-> properties,
    created_at |-> created_at ]

(***************************************************************************)
(* The table: a sequence of rows in rowid order.                           *)
(***************************************************************************)
\* the pre-check left out
SelectExisting_Skipped(table, id, value) == FALSE

\* SELECT id FROM strings WHERE id = ? OR value = ? LIMIT 1
SelectExisting(table, id, value) ==
  \E i \in 1..Len(table) : table[i].id = id \/ table[i].value = value

\* a table declared without PRIMARY KEY and UNIQUE
ViolatesConstraint_None(table, row) == FALSE

\* id TEXT PRIMARY KEY, value TEXT NOT NULL UNIQUE
ViolatesConstraint(table, row) ==
  \E i \in 1..Len(table) : table[i].id = row.id \/ table[i].value = row.value

\* INSERT OR REPLACE: the new row takes the place of the rows it conflicts with
InsertInto_Replace(table, row) ==
  [ok |-> TRUE,
   table |-> Append(SelectSeq(table, LAMBDA r : r.id /= row.id /\ r.value /= row.value),
                    row)]

\* INSERT INTO strings ... : the statement fails when a constraint is violated
InsertInto(table, row) ==
  IF ViolatesConstraint(table, row)
  THEN [ok |-> FALSE, table |-> table]
  ELSE [ok |-> TRUE, table |-> Append(table, row)]

\* SELECT ... FROM strings WHERE value = ? LIMIT 1
SelectByValue(table, value) == SelectSeq(table, LAMBDA r : r.value = value)

\* DELETE FROM strings WHERE value = ?
DeleteByValueRows(table, value) == SelectSeq(table, LAMBDA r : r.value /= value)

\* DELETE FROM strings WHERE id = ?
DeleteByIdRows(table, id) == SelectSeq(table, LAMBDA r : r.id /= id)

(***************************************************************************)
(* Filters.  A QueryFilters object is a record holding the keys that are   *)
(* defined.                                                                *)
(***************************************************************************)
Defined(filters, key) == key \in DOMAIN filters

\* the in-memory evaluation
RecordPasses(record, filters) ==
  LET props == record.properties
  IN /\ ~(Defined(filters, "is_palindrome")
            /\ props.is_palindrome /= filters.is_palindrome)
     /\ ~(Defined(filters, "min_length") /\ props.length < filters.min_length)
     /\ ~(Defined(filters, "max_length") /\ props.length > filters.max_length)
     /\ ~(Defined(filters, "word_count")
            /\ props.word_count /= filters.word_count)
     /\ ~(Defined(filters, "contains_character")
            /\ ~includes(toLowerCase(record.value),
                         toLowerCase(<<filters.contains_character>>)))

applyFilters(records, filters) ==
  SelectSeq(records, LAMBDA record : RecordPasses(record, filters))

\* SQLite LOWER() and the case folding of LIKE act on ASCII letters only
SqlLowerChar(c) == IF IsUpper(c) THEN LowerLetters[IndexIn(UpperLetters, c)] ELSE c

SqlLower(text) == [i \in 1..Len(text) |-> SqlLowerChar(text[i])]

\* text LIKE pattern: % matches any run of characters, _ any one character
RECURSIVE LikeFrom(_, _, _, _)
LikeFrom(text, i, pattern, j) ==
  IF j > Len(pattern) THEN i > Len(text)
  ELSE IF pattern[j] = "%"
  THEN \E k \in i..(Len(text) + 1) : LikeFrom(text, k, pattern, j + 1)
  ELSE IF i > Len(text) THEN FALSE
  ELSE IF pattern[j] = "_" THEN LikeFrom(text, i + 1, pattern, j + 1)
  ELSE /\ SqlLowerChar(text[i]) = SqlLowerChar(pattern[j])
       /\ LikeFrom(text, i + 1, pattern, j + 1)

SqlLike(text, pattern) == LikeFrom(text, 1, pattern, 1)

\* the parameter bound for "LOWER(value) LIKE ?"
LikeParameter(filters) ==
  <<"%">> \o toLowerCase(<<filters.contains_character>>) \o <<"%">>

\* the WHERE clause fetchRecords builds
RowSelected(row, filters) ==
  /\ Defined(filters, "is_palindrome")
       => row.is_palindrome = (IF filters.is_palindrome THEN 1 ELSE 0)
  /\ Defined(filters, "min_length") => row.length >= filters.min_length
  /\ Defined(filters, "max_length") => row.length <= filters.max_length
  /\ Defined(filters, "word_count") => row.word_count = filters.word_count
  /\ Defined(filters, "contains_character")
       => SqlLike(SqlLower(row.value), LikeParameter(filters))

\* the statement without its ORDER BY: the rows in any order
OrderedByCreatedAtDesc_AnyOrder(rows) ==
  LET n == Len(rows)
  IN { [i \in 1..n |-> rows[p[i]]] :
         p \in { q \in [1..n -> 1..n] : \A i, j \in 1..n : i /= j => q[i] /= q[j] } }

\* ORDER BY created_at DESC: every order of the rows in which created_at
\* never increases; rows with equal created_at come in an order SQL leaves open
OrderedByCreatedAtDesc(rows) ==
  LET n == Len(rows)
  IN { [i \in 1..n |-> rows[p[i]]] :
         p \in { q \in [1..n -> 1..n] :
                   /\ \A i, j \in 1..n : i /= j => q[i] /= q[j]
                   /\ \A i \in 1..(n - 1) :
                        rows[q[i]].created_at.iso >= rows[q[i + 1]].created_at.iso } }

\* the results fetchRecords may return
fetchRecords(table, filters) ==
  LET rows == SelectSeq(table, LAMBDA row : RowSelected(row, filters))
  IN { [i \in 1..Len(ordered) |-> mapRowToRecord(ordered[i])] :
         ordered \in OrderedByCreatedAtDesc(rows) }

(***************************************************************************)
(* Natural-language filter parser.                                         *)
(***************************************************************************)
LitSingleWord == <<"s","i","n","g","l","e"," ","w","o","r","d">>
LitPalindromic == <<"p","a","l","i","n","d","r","o","m","i","c">>
LitPalindrome == <<"p","a","l","i","n","d","r","o","m","e">>
LitLongerThan == <<"l","o","n","g","e","r"," ","t","h","a","n">>
LitFirstVowel == <<"f","i","r","s","t"," ","v","o","w","e","l">>
LitContain == <<"c","o","n","t","a","i","n">>
LitIng == <<"i","n","g">>
LitThe == <<"t","h","e">>
LitLetter == <<"l","e","t","t","e","r">>
LitCharacter == <<"c","h","a","r","a","c","t","e","r">>

\* first position at or after i that holds no whitespace (Len(s) + 1 if none)
SkipWhitespace(s, i) ==
  LET stops == {j \in i..Len(s) : ~IsWhitespace(s[j])}
  IN IF stops = {} THEN Len(s) + 1
     ELSE CHOOSE j \in stops : \A k \in stops : j <= k

\* last position of the run of digits that starts at i
DigitRunEnd(s, i) ==
  LET stops == {j \in i..Len(s) : ~IsDigit(s[j])}
  IN IF stops = {} THEN Len(s)
     ELSE (CHOOSE j \in stops : \A k \in stops : j <= k) - 1

\* /longer than\s*(\d+)/ tried at position i: where the digits start, or 0
LongerThanAt(s, i) ==
  IF MatchesAt(s, i, LitLongerThan)
  THEN LET j == SkipWhitespace(s, i + Len(LitLongerThan))
       IN IF j <= Len(s) /\ IsDigit(s[j]) THEN j ELSE 0
  ELSE 0

Leftmost(positions) == CHOOSE i \in positions : \A j \in positions : i <= j

\* lower.match(/longer than\s*(\d+)/): <<>> for null, else <<capture group 1>>
longerMatch(lower) ==
  LET hits == {i \in 1..Len(lower) : LongerThanAt(lower, i) > 0}
  IN IF hits = {} THEN <<>>
     ELSE LET j == LongerThanAt(lower, Leftmost(hits))
          IN <<SubSeq(lower, j, DigitRunEnd(lower, j))>>

\* word\s*([a-z]) tried at position i: where the captured letter is, or 0
WordThenLetterAt(s, i, word) ==
  IF MatchesAt(s, i, word)
  THEN LET e == SkipWhitespace(s, i + Len(word))
       IN IF e <= Len(s) /\ IsLower(s[e]) THEN e ELSE 0
  ELSE 0

\* \s+(?:the\s+)?word\s*([a-z]) tried at position a
AfterContainAt(s, a, word) ==
  IF a <= Len(s) /\ IsWhitespace(s[a])
  THEN LET b == SkipWhitespace(s, a)
           viaThe == IF /\ MatchesAt(s, b, LitThe)
                        /\ b + Len(LitThe) <= Len(s)
                        /\ IsWhitespace(s[b + Len(LitThe)])
                     THEN WordThenLetterAt(s, SkipWhitespace(s, b + Len(LitThe)), word)
                     ELSE 0
       IN IF viaThe > 0 THEN viaThe ELSE WordThenLetterAt(s, b, word)
  ELSE 0

\* contain(?:ing)?\s+(?:the\s+)?word\s*([a-z]) tried at position i
ContainAt(s, i, word) ==
  IF MatchesAt(s, i, LitContain)
  THEN LET a == i + Len(LitContain)
           withIng == IF MatchesAt(s, a, LitIng)
                      THEN AfterContainAt(s, a + Len(LitIng), word)
                      ELSE 0
       IN IF withIng > 0 THEN withIng ELSE AfterContainAt(s, a, word)
  ELSE 0

\* lower.match(/contain(?:ing)?\s+(?:the\s+)?<word>\s*([a-z])/)
containsMatch(lower, word) ==
  LET hits == {i \in 1..Len(lower) : ContainAt(lower, i, word) > 0}
  IN IF hits = {} THEN <<>>
     ELSE <<lower[ContainAt(lower, Leftmost(hits), word)]>>

containsLetterMatch(lower) == containsMatch(lower, LitLetter)

containsCharacterMatch(lower) == containsMatch(lower, LitCharacter)

\* the closure setFilter acts on: filters, conflicts and parsed
NoFilters == [filters |-> <<>>, conflicts |-> <<>>, parsed |-> FALSE]

\* setFilter leaving parsed as it was
setFilter_ParsedNeverSet(st, key, value) ==
  IF Defined(st.filters, key) /\ st.filters[key] /= value
  THEN [st EXCEPT !.conflicts = Append(@, key)]
  ELSE IF ~Defined(st.filters, key)
  THEN [st EXCEPT !.filters = @ @@ (key :> value)]
  ELSE st

setFilter(st, key, value) ==
  IF Defined(st.filters, key) /\ st.filters[key] /= value
  THEN [st EXCEPT !.conflicts = Append(@, key)]
  ELSE IF ~Defined(st.filters, key)
  THEN [st EXCEPT !.filters = @ @@ (key :> value), !.parsed = TRUE]
  ELSE st

\* "longer than N" taken as min_length = N
MinLengthOf_NoIncrement(digits) == Number(digits)

\* Number(longerMatch[1]) + 1
MinLengthOf(digits) == Number(digits) + 1

\* the min_length/max_length test of the parser
ParserRangeConflict(filters) ==
  /\ Defined(filters, "min_length")
  /\ Defined(filters, "max_length")
  /\ filters.min_length > filters.max_length

MsgUnparsed == "Unable to parse natural language query"
MsgConflict == "Query parsed but resulted in conflicting filters"

\* if (longerMatch) setFilter("min_length", Number(longerMatch[1]) + 1)
MinLengthCall(match) ==
  IF match = <<>> THEN <<>> ELSE << <<"min_length", MinLengthOf(match[1])>> >>

\* if (match) setFilter("contains_character", match[1])
ContainsCall(match) ==
  IF match = <<>> THEN <<>> ELSE << <<"contains_character", match[1]>> >>

\* the setFilter calls the phrase tests make, in the order the code makes them
PhraseAssignments(lower) ==
  (IF includes(lower, LitSingleWord) THEN << <<"word_count", 1>> >> ELSE <<>>)
  \o (IF includes(lower, LitPalindromic) \/ includes(lower, LitPalindrome)
      THEN << <<"is_palindrome", TRUE>> >> ELSE <<>>)
  \o MinLengthCall(longerMatch(lower))
  \o (IF includes(lower, LitFirstVowel) THEN << <<"contains_character", "a">> >> ELSE <<>>)
  \o ContainsCall(containsLetterMatch(lower))
  \o ContainsCall(containsCharacterMatch(lower))

RECURSIVE ApplyAssignments(_, _)
ApplyAssignments(st, calls) ==
  IF calls = <<>> THEN st
  ELSE ApplyAssignments(setFilter(st, Head(calls)[1], Head(calls)[2]), Tail(calls))

\* the filters, conflicts and parsed flag once every phrase test has run
ScanPhrases(lower) == ApplyAssignments(NoFilters, PhraseAssignments(lower))

\* the result the parser returns once the phrases are scanned
ParseOutcome(st) ==
  IF Len(st.conflicts) > 0
  THEN [type |-> "conflict", filters |-> st.filters, message |-> MsgConflict]
  ELSE IF ParserRangeConflict(st.filters)
  THEN [type |-> "conflict", filters |-> st.filters, message |-> MsgConflict]
  ELSE IF ~st.parsed
  THEN [type |-> "unparsed", filters |-> st.filters, message |-> MsgUnparsed]
  ELSE [type |-> "success", filters |-> st.filters, message |-> ""]

ParseNormalized(normalized) ==
  IF normalized = <<>>
  THEN [type |-> "unparsed", filters |-> <<>>, message |-> MsgUnparsed]
  ELSE ParseOutcome(ScanPhrases(toLowerCase(normalized)))

parseNaturalLanguageQuery(query) == ParseNormalized(trim(query))

(***************************************************************************)
(* Requests the clients send.                                              *)
(***************************************************************************)
Min(a, b) == IF a <= b THEN a ELSE b

ValuePool == <<
  <<"X", " ", "y">>,
  <<"%", "5", "5">>,
  <<"U">>,
  <<"x", "%">>,
  <<"E_ACUTE", "e_acute">>,
  <<"y", "_", "y">> >>

\* the values clients ask to create
Values == {ValuePool[i] : i \in 1..Min(NumValues, Len(ValuePool))}

BlankValue == <<" ", "\t">>

\* path parameters of getByValue and deleteByValue, as the router hands them over
ValueParams == Values \cup {<<"x", "%">>}

HashOf(value) == computeStringProperties(value).sha256_hash

\* path parameters of deleteById: the 64 hex digits of a hash, or other text
IdParams == {[hash |-> HashOf(v)] : v \in Values} \cup {[text |-> <<"%">>]}

(***************************************************************************)
(* Responses.                                                              *)
(***************************************************************************)
MsgExists == "String already exists in the system"
MsgMissing == "String does not exist in the system"
MsgInvalidBody == "Invalid request body or missing \"value\" field"
MsgInvalidQuery == "Invalid query parameter values or types"
MsgInternal == "Internal Server Error"

\* queried: whether the handler sent a statement to the database
Response(op, arg, status, error, data, filters, queried) ==
  [ op |-> op, arg |-> arg, status |-> status, error |-> error,
    data |-> data, count |-> Len(data), filters |-> filters, queried |-> queried ]

NoResponse == Response("none", <<>>, 0, "", <<>>, <<>>, FALSE)

NoRequest == [value |-> <<>>, properties |-> <<>>]

\* History kept for the properties below.  firstCreated: the record each
\* successful create answered with, for the values created since the last
\* successful delete.  deleted: the stored value the last successful delete
\* was asked to remove and how (by "value" or by "id"), until a create of that
\* value starts.
NothingDeleted == [by |-> "none", value |-> <<>>]

Forget(value) == IF deleted.value = value THEN NothingDeleted ELSE deleted

Init ==
  /\ strings = <<>>
  /\ now = 0
  /\ pc = [c \in Clients |-> "idle"]
  /\ req = [c \in Clients |-> NoRequest]
  /\ resp = NoResponse
  /\ firstCreated = <<>>
  /\ deleted = NothingDeleted

HasValue(table, value) == \E i \in 1..Len(table) : table[i].value = value

(***************************************************************************)
(* POST /strings.  The handler awaits the pre-check SELECT and then the    *)
(* INSERT; other requests run between the two.                             *)
(***************************************************************************)
\* createStringSchema: the value must not trim to the empty string
ValidValue(value) == Len(trim(value)) > 0

CreatePrecheck(c, value) ==
  /\ pc[c] = "idle"
  /\ resp = NoResponse
  /\ IF ~ValidValue(value)
     THEN /\ resp' = Response("create", value, 400, MsgInvalidBody, <<>>, <<>>, FALSE)
          /\ UNCHANGED <<pc, req, deleted>>
     ELSE LET properties == computeStringProperties(value)
          IN /\ deleted' = Forget(value)
             /\ IF SelectExisting(strings, properties.sha256_hash, value)
                THEN /\ resp' = Response("create", value, 409, MsgExists, <<>>, <<>>, TRUE)
                     /\ UNCHANGED <<pc, req>>
                ELSE /\ pc' = [pc EXCEPT ![c] = "insert"]
                     /\ req' = [req EXCEPT ![c] =
                                  [value |-> value, properties |-> properties]]
                     /\ UNCHANGED resp
  /\ UNCHANGED <<strings, now, firstCreated>>

\* what the handler does once the INSERT has run
AnswerInsert(c, record, result) ==
  /\ strings' = result.table
  /\ IF result.ok
     THEN /\ resp' = Response("create", record.value, 201, "", <<record>>, <<>>, TRUE)
          /\ firstCreated' = [v \in DOMAIN firstCreated \cup {record.value} |->
                                IF v = record.value THEN record ELSE firstCreated[v]]
     ELSE \* run() rejects and nothing catches it
          /\ resp' = Response("create", record.value, 500, MsgInternal, <<>>, <<>>, TRUE)
          /\ UNCHANGED firstCreated

CreateInsert(c) ==
  /\ pc[c] = "insert"
  /\ resp = NoResponse
  /\ AnswerInsert(c,
       CreatedRecord(req[c].value, req[c].properties, toISOString(now)),
       InsertInto(strings, InsertedRow(req[c].value, req[c].properties, toISOString(now))))
  /\ pc' = [pc EXCEPT ![c] = "idle"]
  /\ req' = [req EXCEPT ![c] = NoRequest]
  /\ deleted' = Forget(req[c].value)
  /\ UNCHANGED now

(***************************************************************************)
(* GET /strings/:value                                                     *)
(***************************************************************************)
GetByValue(value) ==
  /\ resp = NoResponse
  /\ LET decodedValue == decodeURIComponent(value)
     IN IF ~decodedValue.ok
        THEN resp' = Response("get", value, 500, MsgInternal, <<>>, <<>>, FALSE)
        ELSE LET rows == SelectByValue(strings, decodedValue.text)
             IN IF rows = <<>>
                THEN resp' = Response("get", value, 404, MsgMissing, <<>>, <<>>, TRUE)
                ELSE resp' = Response("get", value, 200, "",
                                      <<mapRowToRecord(rows[1])>>, <<>>, TRUE)
  /\ UNCHANGED <<strings, now, pc, req, firstCreated, deleted>>

(***************************************************************************)
(* DELETE /strings/by-value/:value and DELETE /strings/by-id/:id           *)
(***************************************************************************)
DeleteByValue(value) ==
  /\ resp = NoResponse
  /\ LET decodedValue == decodeURIComponent(value)
     IN IF ~decodedValue.ok
        THEN /\ resp' = Response("deleteByValue", value, 500, MsgInternal, <<>>, <<>>, FALSE)
             /\ UNCHANGED <<strings, firstCreated, deleted>>
        ELSE LET kept == DeleteByValueRows(strings, decodedValue.text)
                 changes == Len(strings) - Len(kept)
             IN IF changes = 0
                THEN /\ resp' = Response("deleteByValue", value, 404, MsgMissing,
                                         <<>>, <<>>, TRUE)
                     /\ UNCHANGED <<strings, firstCreated, deleted>>
                ELSE /\ strings' = kept
                     /\ resp' = Response("deleteByValue", value, 204, "", <<>>, <<>>, TRUE)
                     /\ firstCreated' = <<>>
                     /\ deleted' = IF HasValue(strings, value)
                                   THEN [by |-> "value", value |-> value]
                                   ELSE deleted
  /\ UNCHANGED <<now, pc, req>>

\* the text of an id parameter after decodeURIComponent; hex digits hold no
\* escape, so a hash decodes to itself
DecodeId(id) ==
  IF "hash" \in DOMAIN id
  THEN [ok |-> TRUE, id |-> id.hash]
  ELSE LET d == decodeURIComponent(id.text)
       IN [ok |-> d.ok, id |-> [text |-> d.text]]

DeleteById(id) ==
  /\ resp = NoResponse
  /\ LET decodedId == DecodeId(id)
     IN IF ~decodedId.ok
        THEN /\ resp' = Response("deleteById", id, 500, MsgInternal, <<>>, <<>>, FALSE)
             /\ UNCHANGED <<strings, firstCreated, deleted>>
        ELSE LET kept == DeleteByIdRows(strings, decodedId.id)
                 changes == Len(strings) - Len(kept)
             IN IF changes = 0
                THEN /\ resp' = Response("deleteById", id, 404, MsgMissing, <<>>, <<>>, TRUE)
                     /\ UNCHANGED <<strings, firstCreated, deleted>>
                ELSE /\ strings' = kept
                     /\ resp' = Response("deleteById", id, 204, "", <<>>, <<>>, TRUE)
                     /\ firstCreated' = <<>>
                     /\ deleted' =
                          IF \E v \in Values : HasValue(strings, v) /\ HashOf(v) = id.hash
                          THEN [by |-> "id",
                                value |-> CHOOSE v \in Values :
                                            HasValue(strings, v) /\ HashOf(v) = id.hash]
                          ELSE deleted
  /\ UNCHANGED <<now, pc, req>>

(***************************************************************************)
(* GET /strings and GET /strings/filter-by-natural-language                *)
(***************************************************************************)
\* the test with its comparison turned round
RangeInvalid_Reversed(filters) ==
  /\ Defined(filters, "min_length")
  /\ Defined(filters, "max_length")
  /\ filters.min_length < filters.max_length

\* the min_length/max_length test of the list handler
RangeInvalid(filters) ==
  /\ Defined(filters, "min_length")
  /\ Defined(filters, "max_length")
  /\ filters.min_length > filters.max_length

ListStrings(filters) ==
  /\ resp = NoResponse
  /\ IF RangeInvalid(filters)
     THEN resp' = Response("list", filters, 400, MsgInvalidQuery, <<>>, filters, FALSE)
     ELSE \E records \in fetchRecords(strings, filters) :
            resp' = Response("list", filters, 200, "", records, filters, TRUE)
  /\ UNCHANGED <<strings, now, pc, req, firstCreated, deleted>>

\* what the handler does with the parse result
AnswerParsed(query, parseResult) ==
  IF parseResult.type = "unparsed"
  THEN resp' = Response("nl", query, 400, parseResult.message, <<>>,
                        parseResult.filters, FALSE)
  ELSE IF parseResult.type = "conflict"
  THEN resp' = Response("nl", query, 422, parseResult.message, <<>>,
                        parseResult.filters, FALSE)
  ELSE \E records \in fetchRecords(strings, parseResult.filters) :
         resp' = Response("nl", query, 200, "", records, parseResult.filters, TRUE)

FilterByNaturalLanguage(query) ==
  /\ resp = NoResponse
  /\ AnswerParsed(query, parseNaturalLanguageQuery(query))
  /\ UNCHANGED <<strings, now, pc, req, firstCreated, deleted>>

\* time passes
Tick ==
  /\ now < MaxClock
  /\ now' = now + 1
  /\ UNCHANGED <<strings, pc, req, resp, firstCreated, deleted>>

\* the client takes the response; the service keeps nothing of it
TakeResponse ==
  /\ resp /= NoResponse
  /\ resp' = NoResponse
  /\ UNCHANGED <<strings, now, pc, req, firstCreated, deleted>>

(***************************************************************************)
(* Inputs of the list and natural-language requests.                       *)
(***************************************************************************)
\* an optional query parameter: <<>> when absent, <<v>> when given as v
Opt(key, o) == IF o = <<>> THEN <<>> ELSE (key :> o[1])

PalindromeOptions == {<<>>, <<TRUE>>, <<FALSE>>}
LengthOptions == {<<>>} \cup {<<n>> : n \in 0..MaxFilterLength}
CharacterOptions == {<<>>, <<"x">>, <<"Y">>, <<"%">>, <<"_">>}

\* the filter sets listStringsQuerySchema lets through
AllFilters ==
  { Opt("is_palindrome", p) @@ Opt("min_length", mn) @@ Opt("max_length", mx)
      @@ Opt("word_count", w) @@ Opt("contains_character", ch) :
      p \in PalindromeOptions, mn \in LengthOptions, mx \in LengthOptions,
      w \in LengthOptions, ch \in CharacterOptions }

ListFilters == {f \in AllFilters : Cardinality(DOMAIN f) <= MaxFilterKeys}

\* phrases a query is put together from, joined by single spaces
PhrasePool == <<
  <<"s","i","n","g","l","e"," ","w","o","r","d">>,
  <<"S","i","n","g","l","e"," ","W","o","r","d">>,
  <<"p","a","l","i","n","d","r","o","m","i","c">>,
  <<"p","a","l","i","n","d","r","o","m","e">>,
  <<"l","o","n","g","e","r"," ","t","h","a","n"," ","1">>,
  <<"l","o","n","g","e","r"," ","t","h","a","n"," ","1","0">>,
  <<"f","i","r","s","t"," ","v","o","w","e","l">>,
  <<"c","o","n","t","a","i","n","i","n","g"," ","t","h","e"," ","l","e","t","t","e","r"," ","a">>,
  <<"c","o","n","t","a","i","n"," ","l","e","t","t","e","r"," ","z">>,
  <<"c","o","n","t","a","i","n","i","n","g"," ","t","h","e"," ","c","h","a","r","a","c","t","e","r"," ","z">>,
  <<"c","o","n","t","a","i","n"," ","t","h","e"," ","c","h","a","r","a","c","t","e","r"," ","a">>,
  <<"s","t","r","i","n","g","s">>,
  <<"a","l","l">> >>

PhraseSeqs == UNION {[1..n -> 1..Len(PhrasePool)] : n \in 1..MaxPhrases}

RECURSIVE QueryText(_)
QueryText(fs) ==
  IF Len(fs) = 1 THEN PhrasePool[fs[1]]
  ELSE QueryText(SubSeq(fs, 1, Len(fs) - 1)) \o <<" ">> \o PhrasePool[fs[Len(fs)]]

QueryTable == [fs \in PhraseSeqs |-> QueryText(fs)]

Queries == {QueryTable[fs] : fs \in PhraseSeqs} \cup {<<" ">>}

\* the queries sent while the store is in use
StoreQueries == {QueryTable[<<3>>], QueryTable[<<12>>], QueryTable[<<5>>], <<" ">>}

(***************************************************************************)
(* The property computer and the row reader on their own.                  *)
(***************************************************************************)
TextAlphabet == {"x", "X", "y", " ", "\t", ".", "5", "e_acute"}

\* every text of at most MaxTextLength characters of the alphabet
PropertyInputs == UNION {[1..n -> TextAlphabet] : n \in 0..MaxTextLength}

\* const properties = await computeStringProperties(value)
ComputeProperties(value) ==
  /\ resp = NoResponse
  /\ resp' = Response("properties", value, 200, "",
                      <<computeStringProperties(value)>>, <<>>, FALSE)
  /\ UNCHANGED <<strings, now, pc, req, firstCreated, deleted>>

\* texts the character_frequency_map column may hold when the row was not
\* written by this service
StoredTexts == <<
  [json |-> "object", value |-> <<<<"x", 1>>>>],
  [json |-> "array", value |-> <<1, 2>>],
  [json |-> "null", value |-> <<>>],
  [json |-> "number", value |-> 7],
  [json |-> "string", value |-> <<"x">>],
  [json |-> "boolean", value |-> TRUE],
  [json |-> "invalid", value |-> <<>>] >>

\* a row whose character_frequency_map column holds raw, read by a handler
ReadRow(value, raw) ==
  /\ resp = NoResponse
  /\ LET row == [InsertedRow(value, computeStringProperties(value), toISOString(now))
                   EXCEPT !.character_frequency_map = raw]
     IN resp' = Response("read", raw, 200, "", <<mapRowToRecord(row)>>, <<>>, TRUE)
  /\ UNCHANGED <<strings, now, pc, req, firstCreated, deleted>>

(***************************************************************************)
(* The handlers against the table src/src/db/schema.sql creates.  A        *)
(* statement that names a column the table lacks is rejected by the        *)
(* database, the rejection is not caught and the request ends with 500.    *)
(***************************************************************************)
\* CREATE TABLE IF NOT EXISTS strings (...)
SchemaColumns == {"id", "value", "is_palindrome", "unique_characters",
                  "word_count", "character_frequency_map", "created_at"}

\* INSERT INTO strings (...)
InsertColumns == {"id", "value", "length", "is_palindrome", "unique_characters",
                  "word_count", "character_frequency_map", "created_at"}

\* SELECT ... FROM strings of fetchRecords and of GET /strings/:value
SelectColumns == {"id", "value", "length", "is_palindrome", "unique_characters",
                  "word_count", "character_frequency_map", "created_at"}

\* the columns the WHERE clause of fetchRecords names for the filters given
FilterColumns(filters) ==
  {"created_at"}
    \cup (IF Defined(filters, "is_palindrome") THEN {"is_palindrome"} ELSE {})
    \cup (IF Defined(filters, "min_length") \/ Defined(filters, "max_length")
          THEN {"length"} ELSE {})
    \cup (IF Defined(filters, "word_count") THEN {"word_count"} ELSE {})
    \cup (IF Defined(filters, "contains_character") THEN {"value"} ELSE {})

\* whether the table of the schema has the columns a statement names
TableHasColumns(columns) == columns \subseteq SchemaColumns

CreateWith(value, properties) ==
  IF SelectExisting(strings, properties.sha256_hash, value)
  THEN /\ resp' = Response("create", value, 409, MsgExists, <<>>, <<>>, TRUE)
       /\ UNCHANGED <<strings, firstCreated>>
  ELSE IF ~TableHasColumns(InsertColumns)
  THEN /\ resp' = Response("create", value, 500, MsgInternal, <<>>, <<>>, TRUE)
       /\ UNCHANGED <<strings, firstCreated>>
  ELSE AnswerInsert(1, CreatedRecord(value, properties, toISOString(now)),
                    InsertInto(strings, InsertedRow(value, properties, toISOString(now))))

CreateOnSchema(value) ==
  /\ resp = NoResponse
  /\ IF ~ValidValue(value)
     THEN /\ resp' = Response("create", value, 400, MsgInvalidBody, <<>>, <<>>, FALSE)
          /\ UNCHANGED <<strings, firstCreated>>
     ELSE CreateWith(value, computeStringProperties(value))
  /\ UNCHANGED <<now, pc, req, deleted>>

ListOnSchema(filters) ==
  /\ resp = NoResponse
  /\ IF RangeInvalid(filters)
     THEN resp' = Response("list", filters, 400, MsgInvalidQuery, <<>>, filters, FALSE)
     ELSE IF ~TableHasColumns(SelectColumns \cup FilterColumns(filters))
     THEN resp' = Response("list", filters, 500, MsgInternal, <<>>, filters, TRUE)
     ELSE \E records \in fetchRecords(strings, filters) :
            resp' = Response("list", filters, 200, "", records, filters, TRUE)
  /\ UNCHANGED <<strings, now, pc, req, firstCreated, deleted>>

GetWith(value, decodedValue) ==
  IF ~decodedValue.ok
  THEN resp' = Response("get", value, 500, MsgInternal, <<>>, <<>>, FALSE)
  ELSE IF ~TableHasColumns(SelectColumns)
  THEN resp' = Response("get", value, 500, MsgInternal, <<>>, <<>>, TRUE)
  ELSE IF SelectByValue(strings, decodedValue.text) = <<>>
  THEN resp' = Response("get", value, 404, MsgMissing, <<>>, <<>>, TRUE)
  ELSE resp' = Response("get", value, 200, "",
                        <<mapRowToRecord(SelectByValue(strings, decodedValue.text)[1])>>,
                        <<>>, TRUE)

GetOnSchema(value) ==
  /\ resp = NoResponse
  /\ GetWith(value, decodeURIComponent(value))
  /\ UNCHANGED <<strings, now, pc, req, firstCreated, deleted>>

(***************************************************************************)
(* Specifications.                                                         *)
(***************************************************************************)
Next ==
  \/ \E c \in Clients, value \in Values \cup {BlankValue} : CreatePrecheck(c, value)
  \/ \E c \in Clients : CreateInsert(c)
  \/ \E value \in ValueParams : GetByValue(value)
  \/ \E value \in ValueParams : DeleteByValue(value)
  \/ \E id \in IdParams : DeleteById(id)
  \/ \E filters \in ListFilters : ListStrings(filters)
  \/ \E query \in StoreQueries : FilterByNaturalLanguage(query)
  \/ Tick
  \/ TakeResponse

Spec == Init /\ [][Next]_vars

\* the natural-language endpoint alone, over every query of the pool
NextParse == \E query \in Queries : FilterByNaturalLanguage(query)

SpecParse == Init /\ [][NextParse]_vars

\* the property computer over every text of PropertyInputs, and the row
\* reader over every stored text
NextProperties ==
  \/ \E value \in PropertyInputs : ComputeProperties(value)
  \/ \E value \in Values, k \in 1..Len(StoredTexts) : ReadRow(value, StoredTexts[k])

SpecProperties == Init /\ [][NextProperties]_vars

\* create, list and getByValue against the table of schema.sql
NextSchema ==
  \/ \E value \in Values \cup {BlankValue} : CreateOnSchema(value)
  \/ \E filters \in ListFilters : ListOnSchema(filters)
  \/ \E value \in ValueParams : GetOnSchema(value)
  \/ TakeResponse

SpecSchema == Init /\ [][NextSchema]_vars

(***************************************************************************)
(* Properties.                                                             *)
(***************************************************************************)
Rows(table) == {table[i] : i \in 1..Len(table)}

\* the record stored for a value
StoredRecord(table, value) == mapRowToRecord(SelectByValue(table, value)[1])

\* C1: whatever the interleaving of create, deleteByValue and deleteById
\* requests, the table never holds two rows with the same value or two rows
\* with the same id.
C1_NoDuplicateRecords ==
  \A i, j \in 1..Len(strings) :
    i /= j => /\ strings[i].value /= strings[j].value
              /\ strings[i].id /= strings[j].id

\* a create that passed its pre-check lost the race for its value, and the
\* table holds that value once
C1_Witness ==
  /\ resp.op = "create"
  /\ resp.status = 500
  /\ Cardinality({i \in 1..Len(strings) : strings[i].value = resp.arg}) = 1

\* C2: when two creates of the same value both pass the pre-check before
\* either writes, the one that writes second ends with the Conflict outcome
\* ("String already exists"), the first having ended with created.
C2_RaceLoserGetsConflict ==
  [][\A c \in Clients :
       (pc[c] = "insert" /\ HasValue(strings, req[c].value) /\ CreateInsert(c))
         => /\ resp'.status = 409
            /\ resp'.error = MsgExists]_vars

\* C3: of two creates of the same value run one after the other with no
\* delete in between, the first is answered with the new record and the
\* second with Conflict; the second leaves the table as it was, and the
\* stored record keeps the id, properties and created_at the first answered.
C3_SecondCreateConflicts ==
  [][/\ \A c \in Clients, v \in Values :
          (v \in DOMAIN firstCreated /\ CreatePrecheck(c, v))
            => /\ resp' = Response("create", v, 409, MsgExists, <<>>, <<>>, TRUE)
               /\ strings' = strings
               /\ pc' = pc
     /\ \A c \in Clients :
          (pc[c] = "insert" /\ ~HasValue(strings, req[c].value) /\ CreateInsert(c))
            => /\ resp'.status = 201
               /\ resp'.data[1].value = req[c].value
               /\ firstCreated'[req[c].value] = resp'.data[1]
     /\ (strings' /= strings \/ firstCreated' /= firstCreated)
          => \A v \in DOMAIN firstCreated' :
               /\ HasValue(strings', v)
               /\ StoredRecord(strings', v) = firstCreated'[v]]_vars

\* the second create of a value was answered with Conflict
C3_Witness ==
  /\ resp.op = "create"
  /\ resp.status = 409
  /\ resp.arg \in DOMAIN firstCreated
  /\ StoredRecord(strings, resp.arg) = firstCreated[resp.arg]

\* C4: once deleteByValue(v) has succeeded for a stored value v, and until a
\* create of v, getByValue(v) answers NotFound and so does a second
\* deleteByValue(v); likewise after deleteById with the id of v.  A delete
\* that matches no row answers NotFound and leaves the table as it was.
C4_DeletedValueIsGone ==
  [][/\ \A v \in Values :
          (deleted.by /= "none" /\ deleted.value = v)
            => /\ GetByValue(v) => resp'.status = 404
               /\ (deleted.by = "value" /\ DeleteByValue(v)) => resp'.status = 404
               /\ (deleted.by = "id" /\ DeleteById([hash |-> HashOf(v)]))
                    => resp'.status = 404
     /\ (resp = NoResponse /\ resp'.op \in {"deleteByValue", "deleteById"}
           /\ resp'.status = 404)
          => strings' = strings]_vars

\* C5: a stored record is never changed: the table changes only by a
\* successful create, which adds one row after the rows already there, or by
\* a successful delete, which takes rows away and leaves the others as they
\* are; list, the natural-language filter, getByValue and every failed create
\* or delete leave the whole table as it was.
C5_RecordsImmutable ==
  [][(strings' /= strings)
       => \/ /\ resp'.op = "create"
             /\ resp'.status = 201
             /\ Len(strings') = Len(strings) + 1
             /\ SubSeq(strings', 1, Len(strings)) = strings
             /\ strings'[Len(strings')].value = resp'.arg
          \/ /\ resp'.op \in {"deleteByValue", "deleteById"}
             /\ resp'.status = 204
             /\ strings' = SelectSeq(strings, LAMBDA r : r \in Rows(strings'))]_vars

\* a delete removed one record and left another in the table
C5_Witness ==
  /\ resp.op \in {"deleteByValue", "deleteById"}
  /\ resp.status = 204
  /\ Len(strings) >= 1

\* C6: in every state each stored record has the id computeStringProperties
\* gives for its value, and its length, is_palindrome, unique_characters,
\* word_count and character_frequency_map are the ones computeStringProperties
\* gives for that value; two stored records with different values never share
\* an id.
C6_StoredPropertiesAreDerived ==
  \A i \in 1..Len(strings) :
    LET record == mapRowToRecord(strings[i])
        derived == computeStringProperties(strings[i].value)
    IN /\ record.id = derived.sha256_hash
       /\ record.properties.length = derived.length
       /\ record.properties.is_palindrome = derived.is_palindrome
       /\ record.properties.unique_characters = derived.unique_characters
       /\ record.properties.word_count = derived.word_count
       /\ record.properties.character_frequency_map = derived.character_frequency_map
       /\ \A j \in 1..Len(strings) :
            strings[j].value /= strings[i].value => strings[j].id /= strings[i].id

\* every value of the pool is stored at once
C6_Witness == {strings[i].value : i \in 1..Len(strings)} = Values

\* the records of a response, in no order
Listed(response) == {response.data[i] : i \in 1..Len(response.data)}

\* the filter predicate as the list contract states it
C7_Satisfies(record, filters) ==
  /\ Defined(filters, "is_palindrome")
       => record.properties.is_palindrome = filters.is_palindrome
  /\ Defined(filters, "min_length") => record.properties.length >= filters.min_length
  /\ Defined(filters, "max_length") => record.properties.length <= filters.max_length
  /\ Defined(filters, "word_count")
       => record.properties.word_count = filters.word_count
  /\ Defined(filters, "contains_character")
       => \E i \in 1..Len(record.value) :
            toLowerCase(<<record.value[i]>>)
              = toLowerCase(<<filters.contains_character>>)

\* C7: the result of a list request holds a stored record if and only if the
\* record satisfies every filter that is present (is_palindrome equal, length
\* >= min_length, length <= max_length, word_count equal, value containing
\* contains_character whatever the case); with no filter it holds every
\* stored record.
C7_ListReturnsMatching ==
  (resp.op = "list" /\ resp.status = 200)
    => Listed(resp) = { mapRowToRecord(row) :
                          row \in { r \in Rows(strings) :
                                      C7_Satisfies(mapRowToRecord(r), resp.filters) } }

\* C8: for every table and every valid filter set, the rows the SQL of
\* fetchRecords selects are the records applyFilters keeps of the whole
\* table, for every contains_character, the LIKE pattern characters % and _
\* included.
C8_SqlAgreesWithApplyFilters ==
  (resp.op = "list" /\ resp.status = 200)
    => LET kept == applyFilters([i \in 1..Len(strings) |-> mapRowToRecord(strings[i])],
                                resp.filters)
       IN Listed(resp) = {kept[i] : i \in 1..Len(kept)}

\* C9: a filter set holding min_length and max_length with min_length >
\* max_length is answered with the validation error and without a query of
\* the table, whether it came from the list query or from the
\* natural-language parser.
C9_InvertedRangeRejected ==
  (/\ resp.op \in {"list", "nl"}
   /\ Defined(resp.filters, "min_length")
   /\ Defined(resp.filters, "max_length")
   /\ resp.filters.min_length > resp.filters.max_length)
    => /\ resp.status = 400
       /\ resp.error = MsgInvalidQuery
       /\ ~resp.queried

\* a list request with min_length > max_length has been answered
C9_Witness ==
  /\ resp.op = "list"
  /\ Defined(resp.filters, "min_length")
  /\ Defined(resp.filters, "max_length")
  /\ resp.filters.min_length > resp.filters.max_length

\* the field and the value the parser contract gives for each phrase of
\* PhrasePool; <<>> for a phrase it does not recognize
C10_PhraseEffect == <<
  <<"word_count", 1>>,
  <<"word_count", 1>>,
  <<"is_palindrome", TRUE>>,
  <<"is_palindrome", TRUE>>,
  <<"min_length", 2>>,
  <<"min_length", 11>>,
  <<"contains_character", "a">>,
  <<"contains_character", "a">>,
  <<"contains_character", "z">>,
  <<"contains_character", "z">>,
  <<"contains_character", "a">>,
  <<>>,
  <<>> >>

C10_Recognized(fs) == {i \in 1..Len(fs) : Len(C10_PhraseEffect[fs[i]]) = 2}

C10_Conflicting(fs) ==
  \E i, j \in C10_Recognized(fs) :
    /\ C10_PhraseEffect[fs[i]][1] = C10_PhraseEffect[fs[j]][1]
    /\ C10_PhraseEffect[fs[i]][2] /= C10_PhraseEffect[fs[j]][2]

C10_Expected(fs) ==
  [key \in {C10_PhraseEffect[fs[i]][1] : i \in C10_Recognized(fs)} |->
     C10_PhraseEffect[fs[CHOOSE i \in C10_Recognized(fs) :
                           C10_PhraseEffect[fs[i]][1] = key]][2]]

\* C10 (amended): for every query holding at least one recognized phrase and
\* whose recognized phrases do not conflict, the parser returns Success with
\* exactly the fields of the recognized phrases: "single word" word_count 1,
\* "palindrome"/"palindromic" is_palindrome true, "longer than N" min_length
\* N + 1, "first vowel" contains_character a, "contain(ing) [the]
\* letter/character X" contains_character X; several phrases in one query
\* are all applied.
C10_RecognizedPhrasesApplied ==
  (resp.op = "nl")
    => \A fs \in PhraseSeqs :
         (/\ QueryTable[fs] = resp.arg
          /\ C10_Recognized(fs) /= {}
          /\ ~C10_Conflicting(fs))
           => /\ resp.status = 200
              /\ resp.filters = C10_Expected(fs)

\* C10 as stated: every non-blank query whose recognized phrases do not
\* conflict, a query without a recognized phrase included, returns Success
\* with exactly the fields of its recognized phrases.
C10_EveryQuerySucceeds ==
  (resp.op = "nl")
    => \A fs \in PhraseSeqs :
         (QueryTable[fs] = resp.arg /\ ~C10_Conflicting(fs))
           => /\ resp.status = 200
              /\ resp.filters = C10_Expected(fs)

\* a query with two recognized phrases of different fields has been parsed
C10_Witness ==
  /\ resp.op = "nl"
  /\ resp.status = 200
  /\ Cardinality(DOMAIN resp.filters) >= 2

\* two recognized phrases of the query give the same field the same value
C11_SameValueTwice(fs) ==
  /\ ~C10_Conflicting(fs)
  /\ \E i, j \in C10_Recognized(fs) :
       /\ i /= j
       /\ C10_PhraseEffect[fs[i]][1] = C10_PhraseEffect[fs[j]][1]

\* C11: a query in which two recognized phrases give one filter field two
\* different values is answered Conflict, never Success and never Unparsed;
\* when two recognized phrases give a field the same value the answer is
\* Success with that value.
C11_DifferentValuesConflict ==
  (resp.op = "nl")
    => \A fs \in PhraseSeqs :
         (QueryTable[fs] = resp.arg)
           => /\ C10_Conflicting(fs)
                   => (resp.status = 422 /\ resp.error = MsgConflict)
              /\ C11_SameValueTwice(fs)
                   => (resp.status = 200 /\ resp.filters = C10_Expected(fs))

\* the answer is the Unparsed one
C12_Unparsed == resp.status = 400 /\ resp.error = MsgUnparsed

\* C12: the parser returns Unparsed exactly when the query is blank or holds
\* no recognized phrase; a query with a recognized phrase is never Unparsed;
\* an Unparsed or Conflict answer of the natural-language filter is given
\* without a query of the table.
C12_UnparsedIffNothingRecognized ==
  (resp.op = "nl")
    => /\ (trim(resp.arg) = <<>>) => C12_Unparsed
       /\ \A fs \in PhraseSeqs :
            (QueryTable[fs] = resp.arg)
              => (C12_Unparsed <=> C10_Recognized(fs) = {})
       /\ (resp.status \in {400, 422}) => ~resp.queried
       /\ (resp.status = 200) => resp.queried

\* a query of words the parser does not recognize has been answered Unparsed
C12_Witness ==
  /\ resp.op = "nl"
  /\ resp.arg = QueryTable[<<12, 13>>]
  /\ C12_Unparsed
  /\ ~resp.queried

\* C13: two queries holding the same two recognized phrases in the two
\* orders have the same parse outcome: Success with the same filters,
\* Conflict, or Unparsed; two phrases of one pattern included.
C13_OrderInsensitive ==
  (resp.op = "nl")
    => \A fs \in PhraseSeqs :
         (Len(fs) = 2 /\ QueryTable[fs] = resp.arg)
           => LET swapped == parseNaturalLanguageQuery(QueryTable[<<fs[2], fs[1]>>])
              IN /\ (resp.status = 200) <=> (swapped.type = "success")
                 /\ (resp.status = 422) <=> (swapped.type = "conflict")
                 /\ (resp.status = 400) <=> (swapped.type = "unparsed")
                 /\ (resp.status = 200) => (resp.filters = swapped.filters)

\* what one character leaves in the normal form of a value: an ASCII
\* letter its lower case, a digit itself, an accented letter its base letter
\* in lower case, any other character nothing
C14_NormalChar(c) ==
  IF IsUpper(c) THEN <<LowerLetters[IndexIn(UpperLetters, c)]>>
  ELSE IF IsLower(c) \/ IsDigit(c) THEN <<c>>
  ELSE IF c \in {"E_ACUTE", "e_acute"} THEN <<"e">>
  ELSE <<>>

RECURSIVE C14_Normal(_)
C14_Normal(value) ==
  IF value = <<>> THEN <<>>
  ELSE C14_NormalChar(Head(value)) \o C14_Normal(Tail(value))

\* C14: is_palindrome is true if and only if the normal form of the value
\* (lower-cased, diacritics removed, every character that is not an ASCII
\* letter or digit stripped) is non-empty and equal to its own reversal; a
\* value of punctuation and whitespace only is not a palindrome.
C14_PalindromeIffNormalFormReads ==
  (resp.op = "properties")
    => LET normal == C14_Normal(resp.arg)
       IN resp.data[1].is_palindrome
            <=> (normal /= <<>> /\ normal = Reverse(normal))

\* a palindrome only after case folding and the removal of punctuation
C14_Witness ==
  /\ resp.op = "properties"
  /\ resp.arg = <<"X", ".", "x", " ">>
  /\ resp.data[1].is_palindrome

\* the positions where a maximal run of non-whitespace characters starts
C15_RunStarts(value) ==
  {i \in 1..Len(value) :
     ~IsWhitespace(value[i]) /\ (i = 1 \/ IsWhitespace(value[i - 1]))}

\* C15: word_count is 0 when the value holds whitespace only, and otherwise
\* the number of maximal runs of non-whitespace characters, however many
\* whitespace characters separate or surround them.
C15_WordCountIsRunCount ==
  (resp.op = "properties")
    => resp.data[1].word_count = Cardinality(C15_RunStarts(resp.arg))

\* two words with two whitespace characters between them
C15_Witness ==
  /\ resp.op = "properties"
  /\ resp.arg = <<"x", " ", "\t", "y">>
  /\ resp.data[1].word_count = 2

\* C16: a row whose character_frequency_map text does not decode to a
\* mapping (invalid JSON, or JSON null, number, string, boolean or array) is
\* read without failure, with an empty frequency map.
C16_MalformedMapReadsEmpty ==
  (resp.op = "read" /\ resp.arg.json /= "object")
    => /\ resp.status = 200
       /\ resp.data[1].properties.character_frequency_map = <<>>

RECURSIVE C20_Sum(_)
C20_Sum(map) ==
  IF map = <<>> THEN 0 ELSE Head(map)[2] + C20_Sum(Tail(map))

\* C20: unique_characters is the number of keys of character_frequency_map,
\* the counts sum to length, every count is at least 1, and each key's count
\* is the number of occurrences of exactly that character in the value, the
\* case, whitespace and punctuation kept apart.
C20_PropertiesConsistent ==
  (resp.op = "properties")
    => LET value == resp.arg
           props == resp.data[1]
           map == props.character_frequency_map
       IN /\ props.unique_characters = Len(map)
          /\ \A i, j \in 1..Len(map) : map[i][1] = map[j][1] => i = j
          /\ C20_Sum(map) = props.length
          /\ \A i \in 1..Len(map) :
               /\ map[i][2] >= 1
               /\ map[i][2] = Cardinality({k \in 1..Len(value) : value[k] = map[i][1]})
          /\ \A k \in 1..Len(value) : HasKey(map, value[k])

\* a value holding a letter in both cases, a blank and a full stop
C20_Witness ==
  /\ resp.op = "properties"
  /\ resp.arg = <<"x", "X", " ", ".">>
  /\ resp.data[1].unique_characters = 4

\* C17: every result of list and of the natural-language filter is ordered
\* by created_at descending: of two records of the result the one placed
\* earlier has a created_at not less than the other's; and count is the
\* number of records in data.
C17_NewestFirst ==
  (resp.op \in {"list", "nl"} /\ resp.status = 200)
    => /\ \A i, j \in 1..Len(resp.data) :
            i < j => resp.data[i].created_at.iso >= resp.data[j].created_at.iso
       /\ resp.count = Len(resp.data)

\* a result holding records created at different times
C17_Witness ==
  /\ resp.op \in {"list", "nl"}
  /\ resp.status = 200
  /\ resp.count >= 2
  /\ resp.data[1].created_at.iso > resp.data[resp.count].created_at.iso

\* C18: after create(v) has succeeded and before any delete, getByValue(v)
\* returns the record create returned: the value v, the same id, properties
\* and created_at; for values holding a percent character as well.
C18_CreateThenGet ==
  [][\A v \in Values :
       (v \in DOMAIN firstCreated /\ GetByValue(v))
         => /\ resp'.status = 200
            /\ resp'.data = <<firstCreated[v]>>]_vars

\* C19: the table the schema defines has every column of the persisted
\* record, length among them: every column create's INSERT writes and every
\* column list and getByValue read or filter on is in the table, and a create
\* of a fresh non-blank value is stored, not rejected by the database.
C19_SchemaHasEveryColumn ==
  /\ (resp.op = "create" /\ ValidValue(resp.arg))
       => /\ InsertColumns \subseteq SchemaColumns
          /\ resp.status = 201
          /\ HasValue(strings, resp.arg)
  /\ (resp.op = "list" /\ resp.status /= 400)
       => /\ (SelectColumns \cup FilterColumns(resp.filters)) \subseteq SchemaColumns
          /\ resp.status = 200
  /\ (resp.op = "get")
       => SelectColumns \subseteq SchemaColumns

====
